---- MODULE Spec2Model ----
(***************************************************************************)
(* The RAML client generator plugin of the API notebook                    *)
(* (public/scripts/plugins/raml-client-generator/index.js): the API facade *)
(* createClient / set / get / unset / authenticate, the file reader handed *)
(* to the RAML parser, and the collaborators the facade talks to (the      *)
(* middleware bus, the RAML loader, the client generator, the global       *)
(* namespace of the sandbox, the authenticator).                           *)
(***************************************************************************)
EXTENDS Integers, Sequences, FiniteSets, TLC

(***************************************************************************)
(* Bounds.                                                                 *)
(***************************************************************************)
\* createClient calls whose loads may be in flight together
MaxCalls == 2
\* files a description includes besides the main document
MaxIncludes == 1
\* authenticate calls on one client
MaxAuthCalls == 2

Calls == 1..MaxCalls
AuthCalls == 1..MaxAuthCalls

(***************************************************************************)
(* JavaScript values.  A value is a record [t, s, n]: t is its typeof, s    *)
(* the characters of a string (the name of a function or an object), n the *)
(* value of a number (1 for true, 0 for the rest).                         *)
(***************************************************************************)
Str(cs) == [t |-> "string", s |-> cs, n |-> 0]
Num(n) == [t |-> "number", s |-> <<>>, n |-> n]
Bool(b) == [t |-> "boolean", s |-> <<>>, n |-> IF b THEN 1 ELSE 0]
Undefined == [t |-> "undefined", s |-> <<>>, n |-> 0]
\* the 123 of createClient('x', 123, done)
ANumber == Num(123)

\* _.isString
IsString(v) == v.t = "string"

\* Errors, messages and "nothing" share one record shape: kind is the text
\* of the message, about the value spliced into it, status the status code
\* spliced into it (0 when the message carries none).
Payload(kind, about, status) == [kind |-> kind, about |-> about, status |-> status]
Nothing == Payload("nothing", Undefined, 0)

\* new Error('Provide a name for the generated client')
NameError == Payload("Provide a name for the generated client", Undefined, 0)
\* new Error('Provide a URL for the ' + name + ' RAML document')
UrlError(name) == Payload("Provide a URL for the <name> RAML document", name, 0)
\* new Error('Received status code ' + xhr.status + ' loading ' + url)
StatusError(status, url) == Payload("Received status code <status> loading <url>", url, status)
\* the error the middleware hands to the ajax callback
TransportError == Payload("transport error", Undefined, 0)
\* the loader's error for a document it cannot parse
ParseError == Payload("malformed document", Undefined, 0)
\* what the client generator throws
GenerationError == Payload("generation error", Undefined, 0)
\* 'Create a new code cell and type \'' + name + '.\' to explore this API.'
SuccessMessage(name) == Payload("Create a new code cell and type '<name>.' to explore this API.", name, 0)

\* one invocation of a completion handle: done(err) or done(null, result)
DoneWith(err, result) == [err |-> err, result |-> result]

(***************************************************************************)
(* Inputs.                                                                 *)
(***************************************************************************)
NoCall == [name |-> Undefined, url |-> Undefined, config |-> "none", done |-> "none"]

NameArgs == {Str(<<"a">>), Str(<<"a", ".", "b">>), Str(<<>>), Undefined}
UrlArgs == {Str(<<"u">>), Str(<<>>), ANumber}
\* typeof of the third and of the fourth argument
ConfigArgs == {"undefined", "object", "function"}
DoneArgs == {"undefined", "function"}
\* xhr.status of a response
Statuses == {0, 199, 200, 204, 299, 300, 404}
\* the url of an included file
IncludeUrl == Str(<<"i">>)

\* the inputs of the calls that race in SpecConcurrent
RaceNameArgs == {Str(<<"a">>), Str(<<"a", ".", "b">>), Str(<<>>)}
RaceUrlArgs == {Str(<<"u">>)}
RaceStatuses == {200, 404}

VARIABLES
    args,        \* [Calls -> the arguments of the createClient call, NoCall before it]
    pc,          \* [Calls -> "idle" | "threw" | "loading" | "resolved" | "rejected" | "done"]
    thrown,      \* [Calls -> the error createClient threw, Nothing otherwise]
    fetch,       \* [Calls -> the reader's file fetches, in the order they were asked for]
    load,        \* [Calls -> what the loadFile promise settled with, Nothing before]
    jobs,        \* the calls whose settled promise has its reaction queued, oldest first
    loadOrder,   \* the calls in the order their loads settled
    done,        \* [Calls -> the invocations of the call's completion handle]
    trace,       \* [Calls -> the steps of the call, in order]
    window,      \* App._executeWindow: [path -> client (a call's number) or 0 (plain object)]
    timeout,     \* App._executeContext.timeout: "default" | "Infinity" | "10min"
    asyncHandles, \* how many handles App._executeContext.async() gave out
    clientConfig, \* the own properties of a client's '!config' object: [key -> value]
    lastOp,      \* the last set / get / unset call on that client, with what it returned
    heap,        \* [object -> its own properties]: the objects that serve as '!config'
    configOf,    \* [Calls -> the object that is the '!config' of the call's client, Undefined before]
    lastClient,  \* the call whose client the last operation of SpecClients was on, 0 before
    securedBy,   \* client['!client'].securedBy: the schemes the description declares, in order
    authentication, \* client['!client'].authentication: [scheme type -> bundle]
    authArgs,    \* [AuthCalls -> the arguments of the authenticate call, NoAuthCall before it]
    authPc,      \* [AuthCalls -> "idle" | "pending" | "prompt" | "handshake" | "done"]
    authOutcome, \* [AuthCalls -> how the authenticator ended: "none" before it has]
    authDone,    \* [AuthCalls -> the invocations of the call's completion handle]
    authSeen     \* [AuthCalls -> the authentication map as it was when the handle was called]

createVars == <<args, pc, thrown, fetch, load, jobs, loadOrder, done, trace, window>>
sandboxVars == <<timeout, asyncHandles>>
configVars == <<clientConfig, lastOp, heap, configOf, lastClient>>
authVars == <<securedBy, authentication, authArgs, authPc, authOutcome, authDone, authSeen>>
vars == <<createVars, sandboxVars, configVars, authVars>>

(***************************************************************************)
(* createClient: argument validation and the completion handle.            *)
(***************************************************************************)
\* Validate without the check of the url
Validate_NoUrlCheck(name, url) ==
    IF ~IsString(name) THEN NameError ELSE Nothing

\* Validate asking for non-empty text
Validate_RejectsEmpty(name, url) ==
    IF ~IsString(name) \/ name.s = <<>> THEN NameError
    ELSE IF ~IsString(url) \/ url.s = <<>> THEN UrlError(name)
    ELSE Nothing

\* the error createClient throws for these arguments, Nothing when it
\* throws none
Validate(name, url) ==
    IF ~IsString(name) THEN NameError
    ELSE IF ~IsString(url) THEN UrlError(name)
    ELSE Nothing

\* the completion handle: the third argument when it is a function, else
\* the fourth when given, else a handle from App._executeContext.async()
Handle(config, doneArg) ==
    IF config = "function" THEN "arg3"
    ELSE IF doneArg = "function" THEN "arg4"
    ELSE "async"

HandleOf(c) == Handle(args[c].config, args[c].done)

(***************************************************************************)
(* The reader handed to the RAML parser.                                   *)
(***************************************************************************)
\* a fetch: the url asked for, the deferred's state, what the ajax callback
\* was given (cbErr, status), and what the deferred settled with
Fetch(url) == [url |-> url, st |-> "pending", cbErr |-> Nothing, status |-> 0,
               value |-> Nothing]

\* the response body of a url
Body(url) == Payload("responseText", url, 0)

\* ReaderCallback failing only on the 4xx and 5xx statuses
ReaderCallback_OnlyErrorStatuses(f, err, status) ==
    IF err # Nothing
      THEN [f EXCEPT !.st = "rejected", !.cbErr = err, !.value = err]
      ELSE IF status >= 400
        THEN [f EXCEPT !.st = "rejected", !.status = status,
                       !.value = StatusError(status, f.url)]
        ELSE [f EXCEPT !.st = "resolved", !.status = status, !.value = Body(f.url)]

\* the ajax callback: settles the fetch f given (err, xhr.status)
ReaderCallback(f, err, status) ==
    IF err # Nothing
      THEN [f EXCEPT !.st = "rejected", !.cbErr = err, !.value = err]
      ELSE IF (status \div 100) # 2
        THEN [f EXCEPT !.st = "rejected", !.status = status,
                       !.value = StatusError(status, f.url)]
        ELSE [f EXCEPT !.st = "resolved", !.status = status, !.value = Body(f.url)]

(***************************************************************************)
(* The global namespace.                                                   *)
(***************************************************************************)
RECURSIVE SplitFrom(_, _, _)
SplitFrom(cs, acc, cur) ==
    IF cs = <<>> THEN Append(acc, cur)
    ELSE IF Head(cs) = "." THEN SplitFrom(Tail(cs), Append(acc, cur), <<>>)
    ELSE SplitFrom(Tail(cs), acc, Append(cur, Head(cs)))

\* name.split('.')
Split(cs) == SplitFrom(cs, <<>>, <<>>)

IsPrefix(p, q) == Len(p) <= Len(q) /\ SubSeq(q, 1, Len(p)) = p
IsStrictPrefix(p, q) == Len(p) < Len(q) /\ IsPrefix(p, q)
StrictPrefixes(p) == {SubSeq(p, 1, n) : n \in 1..(Len(p) - 1)}

\* fromPath(object, path, value): sets value at the dotted path, creating the
\* objects on the way that are missing; what hung below the path before is
\* no longer reachable through it
FromPath(w, path, value) ==
    LET kept == {q \in DOMAIN w : ~IsStrictPrefix(path, q)}
    IN [q \in kept \cup StrictPrefixes(path) \cup {path} |->
          IF q = path THEN value
          ELSE IF q \in DOMAIN w THEN w[q]
          ELSE 0]

(***************************************************************************)
(* The reaction to the loadFile promise.                                   *)
(***************************************************************************)
\* ThenFulfilled with the catch block falling through (no return)
ThenFulfilled_NoReturn(c, name, generated, w) ==
    IF ~generated
      THEN [steps |-> <<"generate", "threw", "done", "done">>,
            window |-> w,
            done |-> <<DoneWith(GenerationError, Nothing),
                       DoneWith(Nothing, SuccessMessage(name))>>]
      ELSE [steps |-> <<"generate", "generated", "install", "installed", "done">>,
            window |-> FromPath(w, Split(name.s), c),
            done |-> <<DoneWith(Nothing, SuccessMessage(name))>>]

\* ThenFulfilled reserving the alias with an empty object before it generates
ThenFulfilled_ReservesAlias(c, name, generated, w) ==
    IF ~generated
      THEN [steps |-> <<"install", "generate", "threw", "done">>,
            window |-> FromPath(w, Split(name.s), 0),
            done |-> <<DoneWith(GenerationError, Nothing)>>]
      ELSE [steps |-> <<"install", "generate", "generated", "install", "installed", "done">>,
            window |-> FromPath(w, Split(name.s), c),
            done |-> <<DoneWith(Nothing, SuccessMessage(name))>>]

\* ThenFulfilled reporting success before it installs the client
ThenFulfilled_DoneFirst(c, name, generated, w) ==
    IF ~generated
      THEN [steps |-> <<"generate", "threw", "done">>,
            window |-> w,
            done |-> <<DoneWith(GenerationError, Nothing)>>]
      ELSE [steps |-> <<"generate", "generated", "done", "install", "installed">>,
            window |-> FromPath(w, Split(name.s), c),
            done |-> <<DoneWith(Nothing, SuccessMessage(name))>>]

\* ThenFulfilled keeping what the alias already holds (first write wins)
ThenFulfilled_KeepsFirst(c, name, generated, w) ==
    IF ~generated
      THEN [steps |-> <<"generate", "threw", "done">>,
            window |-> w,
            done |-> <<DoneWith(GenerationError, Nothing)>>]
      ELSE [steps |-> <<"generate", "generated", "install", "installed", "done">>,
            window |-> IF Split(name.s) \in DOMAIN w THEN w
                       ELSE FromPath(w, Split(name.s), c),
            done |-> <<DoneWith(Nothing, SuccessMessage(name))>>]

\* the fulfilment handler of call c: generated tells whether clientGenerator
\* returned (TRUE) or threw (FALSE); gives the steps taken, the namespace
\* afterwards and the invocations of done
ThenFulfilled(c, name, generated, w) ==
    IF ~generated
      THEN [steps |-> <<"generate", "threw", "done">>,
            window |-> w,
            done |-> <<DoneWith(GenerationError, Nothing)>>]
      ELSE [steps |-> <<"generate", "generated", "install", "installed", "done">>,
            window |-> FromPath(w, Split(name.s), c),
            done |-> <<DoneWith(Nothing, SuccessMessage(name))>>]

\* the rejection handler is done itself
ThenRejected(err) == <<DoneWith(err, Nothing)>>

(***************************************************************************)
(* Actions.                                                                *)
(***************************************************************************)
\* calls are numbered in the order they are made
NextCall(c) == pc[c] = "idle" /\ \A d \in Calls : d < c => pc[d] # "idle"

\* CreateClient lifting the timeout and taking its handle before it checks
\* its arguments
CreateClient_TimeoutFirst(c, name, url, config, doneArg) ==
    /\ NextCall(c)
    /\ args' = [args EXCEPT ![c] = [name |-> name, url |-> url,
                                     config |-> config, done |-> doneArg]]
    /\ timeout' = "Infinity"
    /\ asyncHandles' = IF Handle(config, doneArg) = "async"
                         THEN asyncHandles + 1 ELSE asyncHandles
    /\ IF Validate(name, url) # Nothing
         THEN /\ thrown' = [thrown EXCEPT ![c] = Validate(name, url)]
              /\ pc' = [pc EXCEPT ![c] = "threw"]
         ELSE /\ pc' = [pc EXCEPT ![c] = "loading"]
              /\ UNCHANGED thrown
    /\ UNCHANGED <<fetch, load, jobs, loadOrder, done, trace, window>>
    /\ UNCHANGED <<configVars, authVars>>

\* API.createClient(name, url, config, done)
CreateClient(c, name, url, config, doneArg) ==
    /\ NextCall(c)
    /\ args' = [args EXCEPT ![c] = [name |-> name, url |-> url,
                                     config |-> config, done |-> doneArg]]
    /\ IF Validate(name, url) # Nothing
         THEN /\ thrown' = [thrown EXCEPT ![c] = Validate(name, url)]
              /\ pc' = [pc EXCEPT ![c] = "threw"]
              /\ UNCHANGED <<timeout, asyncHandles>>
         ELSE /\ timeout' = "Infinity"
              /\ asyncHandles' = IF Handle(config, doneArg) = "async"
                                   THEN asyncHandles + 1 ELSE asyncHandles
              /\ pc' = [pc EXCEPT ![c] = "loading"]
              /\ UNCHANGED thrown
    /\ UNCHANGED <<fetch, load, jobs, loadOrder, done, trace, window>>
    /\ UNCHANGED <<configVars, authVars>>

\* the files call c's loader still wants: the main document first, then,
\* once that one is fetched, the files it includes
Wanted(c) ==
    IF fetch[c] = <<>> THEN {args[c].url}
    ELSE IF /\ Len(fetch[c]) <= MaxIncludes
            /\ \A i \in 1..Len(fetch[c]) : fetch[c][i].st = "resolved"
      THEN {IncludeUrl}
      ELSE {}

\* ReadFile triggering the request a second time
ReadFile_Twice(c, url) ==
    /\ pc[c] = "loading"
    /\ url \in Wanted(c)
    /\ fetch' = [fetch EXCEPT ![c] = Append(@, Fetch(url))]
    /\ trace' = [trace EXCEPT ![c] = @ \o <<"ajax", "ajax">>]
    /\ UNCHANGED <<args, pc, thrown, load, jobs, loadOrder, done, window>>
    /\ UNCHANGED <<sandboxVars, configVars, authVars>>

\* the loader asks the reader for a file: the reader triggers 'ajax' and
\* returns the promise of a new deferred
ReadFile(c, url) ==
    /\ pc[c] = "loading"
    /\ url \in Wanted(c)
    /\ fetch' = [fetch EXCEPT ![c] = Append(@, Fetch(url))]
    /\ trace' = [trace EXCEPT ![c] = Append(@, "ajax")]
    /\ UNCHANGED <<args, pc, thrown, load, jobs, loadOrder, done, window>>
    /\ UNCHANGED <<sandboxVars, configVars, authVars>>

\* the middleware calls the ajax callback of call c's i-th fetch
AjaxCallback(c, i, err, status) ==
    /\ pc[c] = "loading"
    /\ i \in 1..Len(fetch[c])
    /\ fetch[c][i].st = "pending"
    /\ fetch' = [fetch EXCEPT ![c][i] = ReaderCallback(@, err, status)]
    /\ UNCHANGED <<args, pc, thrown, load, jobs, loadOrder, done, trace, window>>
    /\ UNCHANGED <<sandboxVars, configVars, authVars>>

Settle(c, state, value) ==
    /\ pc' = [pc EXCEPT ![c] = state]
    /\ load' = [load EXCEPT ![c] = value]
    /\ jobs' = Append(jobs, c)
    /\ loadOrder' = Append(loadOrder, c)
    /\ trace' = [trace EXCEPT ![c] = Append(@, "loaded")]
    /\ UNCHANGED <<args, thrown, fetch, done, window>>
    /\ UNCHANGED <<sandboxVars, configVars, authVars>>

\* a rejected fetch rejects the load with the fetch's error
LoadFails(c) ==
    /\ pc[c] = "loading"
    /\ \E i \in 1..Len(fetch[c]) :
         /\ fetch[c][i].st = "rejected"
         /\ Settle(c, "rejected", fetch[c][i].value)

\* with every file fetched the loader parses the document: the load
\* resolves with the document, or rejects when it is malformed
LoadParses(c, wellFormed) ==
    /\ pc[c] = "loading"
    /\ fetch[c] # <<>>
    /\ \A i \in 1..Len(fetch[c]) : fetch[c][i].st = "resolved"
    /\ IF wellFormed
         THEN Settle(c, "resolved", Payload("document", args[c].url, 0))
         ELSE Settle(c, "rejected", ParseError)

\* the oldest queued reaction runs to completion
RunFulfilled(c, generated) ==
    /\ jobs # <<>> /\ Head(jobs) = c
    /\ pc[c] = "resolved"
    /\ LET r == ThenFulfilled(c, args[c].name, generated, window)
       IN /\ trace' = [trace EXCEPT ![c] = @ \o r.steps]
          /\ window' = r.window
          /\ done' = [done EXCEPT ![c] = @ \o r.done]
    /\ pc' = [pc EXCEPT ![c] = "done"]
    /\ jobs' = Tail(jobs)
    /\ UNCHANGED <<args, thrown, fetch, load, loadOrder>>
    /\ UNCHANGED <<sandboxVars, configVars, authVars>>

RunRejected(c) ==
    /\ jobs # <<>> /\ Head(jobs) = c
    /\ pc[c] = "rejected"
    /\ done' = [done EXCEPT ![c] = @ \o ThenRejected(load[c])]
    /\ trace' = [trace EXCEPT ![c] = Append(@, "done")]
    /\ pc' = [pc EXCEPT ![c] = "done"]
    /\ jobs' = Tail(jobs)
    /\ UNCHANGED <<args, thrown, fetch, load, loadOrder, window>>
    /\ UNCHANGED <<sandboxVars, configVars, authVars>>

(***************************************************************************)
(* The configuration of a client: client['!config'], a plain object.       *)
(***************************************************************************)
EmptyMap == [k \in {} |-> Undefined]

ConfigKeys == {"k", "0", "length", "toString"}
ConfigValues == {Str(<<"v">>), Str(<<"w">>), Num(1)}
\* the maps handed to set(client, map): up to two keys
ConfigMaps ==
    UNION {[ks -> ConfigValues] : ks \in {x \in SUBSET ConfigKeys : Cardinality(x) <= 2}}

\* the '!config' object itself, as a value
ConfigObject == [t |-> "object", s |-> <<"!config">>, n |-> 0]

\* what a plain object inherits from Object.prototype, among ConfigKeys
ObjectPrototype == [k \in {"toString"} |-> [t |-> "function", s |-> <<"toString">>, n |-> 0]]

\* obj[key]: the own property, else the inherited one, else undefined
Lookup(obj, key) ==
    IF key \in DOMAIN obj THEN obj[key]
    ELSE IF key \in DOMAIN ObjectPrototype THEN ObjectPrototype[key]
    ELSE Undefined

\* obj[key] = value
Assign(obj, key, value) ==
    [k \in DOMAIN obj \cup {key} |-> IF k = key THEN value ELSE obj[k]]

\* delete obj[key], for each key of keys
Delete(obj, keys) == [k \in DOMAIN obj \ keys |-> obj[k]]

\* _.extend(obj, source): every property of source is assigned to obj
Extend(obj, source) ==
    [k \in DOMAIN obj \cup DOMAIN source |->
       IF k \in DOMAIN source THEN source[k] ELSE obj[k]]

\* String(i) of an index
IndexKey(i) == <<"0", "1", "2", "3", "4", "5", "6", "7", "8", "9">>[i + 1]

\* the keys _.each(obj, iterator) hands to its iterator: underscore takes an
\* object whose length is a number (obj.length === +obj.length) for an
\* array and visits the indices 0 .. length - 1, else it visits _.keys(obj)
EachKeys(obj) ==
    LET length == Lookup(obj, "length")
    IN IF length.t = "number"
         THEN {IndexKey(i) : i \in 0..(length.n - 1)}
         ELSE DOMAIN obj

\* API.set(client, key, value)
ApiSet(obj, key, value) == [config |-> Assign(obj, key, value), ret |-> value]
\* API.set(client, map)
ApiSetAll(obj, map) == [config |-> Extend(obj, map), ret |-> ConfigObject]
\* API.get(client, key)
ApiGet(obj, key) == [config |-> obj, ret |-> Lookup(obj, key)]
\* API.get(client)
ApiGetAll(obj) == [config |-> obj, ret |-> ConfigObject]
\* ApiUnset clearing the whole config
ApiUnset_Clears(obj, key) == [config |-> EmptyMap, ret |-> Bool(TRUE)]
\* API.unset(client, key)
ApiUnset(obj, key) == [config |-> Delete(obj, {key}), ret |-> Bool(TRUE)]
\* API.unset(client)
ApiUnsetAll(obj) == [config |-> Delete(obj, EachKeys(obj)), ret |-> Bool(TRUE)]

Op(op, key, value, map, ret) ==
    [op |-> op, key |-> key, value |-> value, map |-> map, ret |-> ret]
NoOp == Op("none", "", Undefined, EmptyMap, Undefined)

\* API.set(client, key, value): three arguments
Set(key, value) ==
    LET r == ApiSet(clientConfig, key, value)
    IN /\ clientConfig' = r.config
       /\ lastOp' = Op("set", key, value, EmptyMap, r.ret)
       /\ UNCHANGED <<heap, configOf, lastClient>>
       /\ UNCHANGED <<createVars, sandboxVars, authVars>>

\* API.set(client, map): two arguments
SetAll(map) ==
    LET r == ApiSetAll(clientConfig, map)
    IN /\ clientConfig' = r.config
       /\ lastOp' = Op("setAll", "", Undefined, map, r.ret)
       /\ UNCHANGED <<heap, configOf, lastClient>>
       /\ UNCHANGED <<createVars, sandboxVars, authVars>>

\* API.get(client, key)
Get(key) ==
    LET r == ApiGet(clientConfig, key)
    IN /\ clientConfig' = r.config
       /\ lastOp' = Op("get", key, Undefined, EmptyMap, r.ret)
       /\ UNCHANGED <<heap, configOf, lastClient>>
       /\ UNCHANGED <<createVars, sandboxVars, authVars>>

\* API.get(client)
GetAll ==
    LET r == ApiGetAll(clientConfig)
    IN /\ clientConfig' = r.config
       /\ lastOp' = Op("getAll", "", Undefined, EmptyMap, r.ret)
       /\ UNCHANGED <<heap, configOf, lastClient>>
       /\ UNCHANGED <<createVars, sandboxVars, authVars>>

\* API.unset(client, key)
Unset(key) ==
    LET r == ApiUnset(clientConfig, key)
    IN /\ clientConfig' = r.config
       /\ lastOp' = Op("unset", key, Undefined, EmptyMap, r.ret)
       /\ UNCHANGED <<heap, configOf, lastClient>>
       /\ UNCHANGED <<createVars, sandboxVars, authVars>>

\* API.unset(client)
UnsetAll ==
    LET r == ApiUnsetAll(clientConfig)
    IN /\ clientConfig' = r.config
       /\ lastOp' = Op("unsetAll", "", Undefined, EmptyMap, r.ret)
       /\ UNCHANGED <<heap, configOf, lastClient>>
       /\ UNCHANGED <<createVars, sandboxVars, authVars>>

(***************************************************************************)
(* The configurations of several clients.  createClient hands the config   *)
(* it was given, or a new {}, to the client generator, which keeps that    *)
(* object as the client's '!config'.                                       *)
(***************************************************************************)
\* an object the caller made and passes as the config argument
CallerConfig == [t |-> "object", s |-> <<"cfg">>, n |-> 0]
\* the {} that createClient call c makes
FreshConfig(c) == [t |-> "object", s |-> <<"{}">>, n |-> c]
AFunction == [t |-> "function", s |-> <<"done">>, n |-> 0]
Objects == {CallerConfig} \cup {FreshConfig(c) : c \in Calls}

\* the third argument of createClient
ConfigRefArgs == {Undefined, AFunction, CallerConfig}
SharedKeys == {"k", "length"}
SharedValues == {Str(<<"v">>), Num(1)}
SharedMaps == UNION {[ks -> SharedValues] : ks \in SUBSET SharedKeys}

\* the config createClient hands to the client generator: {} in place of a
\* function (which is the completion handle) or a missing config
ConfigFor(c, config) ==
    IF config.t = "function" THEN FreshConfig(c)
    ELSE IF config = Undefined THEN FreshConfig(c)
    ELSE config

\* the '!config' of the client the generator makes: the config it is given
ClientGenerator(config) == config

\* what an operation returns: the '!config' object itself, where the one
\* client's model says ConfigObject
Returned(ret, obj) == IF ret = ConfigObject THEN obj ELSE ret

HasClient(c) == configOf[c] # Undefined

\* createClient call c, with a load and a generation that succeed
Generate(c, config) ==
    /\ ~HasClient(c)
    /\ configOf' = [configOf EXCEPT ![c] = ClientGenerator(ConfigFor(c, config))]
    /\ lastOp' = Op("createClient", "", config, EmptyMap, Undefined)
    /\ lastClient' = c
    /\ UNCHANGED <<clientConfig, heap>>
    /\ UNCHANGED <<createVars, sandboxVars, authVars>>

\* API.set(client, key, value) on the client of call c
SetOn(c, key, value) ==
    /\ HasClient(c)
    /\ LET r == ApiSet(heap[configOf[c]], key, value)
       IN /\ heap' = [heap EXCEPT ![configOf[c]] = r.config]
          /\ lastOp' = Op("set", key, value, EmptyMap, Returned(r.ret, configOf[c]))
    /\ lastClient' = c
    /\ UNCHANGED <<clientConfig, configOf>>
    /\ UNCHANGED <<createVars, sandboxVars, authVars>>

\* API.set(client, map)
SetAllOn(c, map) ==
    /\ HasClient(c)
    /\ LET r == ApiSetAll(heap[configOf[c]], map)
       IN /\ heap' = [heap EXCEPT ![configOf[c]] = r.config]
          /\ lastOp' = Op("setAll", "", Undefined, map, Returned(r.ret, configOf[c]))
    /\ lastClient' = c
    /\ UNCHANGED <<clientConfig, configOf>>
    /\ UNCHANGED <<createVars, sandboxVars, authVars>>

\* API.get(client, key)
GetOn(c, key) ==
    /\ HasClient(c)
    /\ LET r == ApiGet(heap[configOf[c]], key)
       IN /\ heap' = [heap EXCEPT ![configOf[c]] = r.config]
          /\ lastOp' = Op("get", key, Undefined, EmptyMap, Returned(r.ret, configOf[c]))
    /\ lastClient' = c
    /\ UNCHANGED <<clientConfig, configOf>>
    /\ UNCHANGED <<createVars, sandboxVars, authVars>>

\* API.get(client)
GetAllOn(c) ==
    /\ HasClient(c)
    /\ LET r == ApiGetAll(heap[configOf[c]])
       IN /\ heap' = [heap EXCEPT ![configOf[c]] = r.config]
          /\ lastOp' = Op("getAll", "", Undefined, EmptyMap, Returned(r.ret, configOf[c]))
    /\ lastClient' = c
    /\ UNCHANGED <<clientConfig, configOf>>
    /\ UNCHANGED <<createVars, sandboxVars, authVars>>

\* API.unset(client, key)
UnsetOn(c, key) ==
    /\ HasClient(c)
    /\ LET r == ApiUnset(heap[configOf[c]], key)
       IN /\ heap' = [heap EXCEPT ![configOf[c]] = r.config]
          /\ lastOp' = Op("unset", key, Undefined, EmptyMap, Returned(r.ret, configOf[c]))
    /\ lastClient' = c
    /\ UNCHANGED <<clientConfig, configOf>>
    /\ UNCHANGED <<createVars, sandboxVars, authVars>>

\* API.unset(client)
UnsetAllOn(c) ==
    /\ HasClient(c)
    /\ LET r == ApiUnsetAll(heap[configOf[c]])
       IN /\ heap' = [heap EXCEPT ![configOf[c]] = r.config]
          /\ lastOp' = Op("unsetAll", "", Undefined, EmptyMap, Returned(r.ret, configOf[c]))
    /\ lastClient' = c
    /\ UNCHANGED <<clientConfig, configOf>>
    /\ UNCHANGED <<createVars, sandboxVars, authVars>>

(***************************************************************************)
(* authenticate.                                                           *)
(***************************************************************************)
NoMethod == "(omitted)"
MethodArgs == {NoMethod, "basic", "oauth1"}
OptionsArgs == {EmptyMap, [k \in {"user", "token"} |-> "u"]}
\* the token bundles a handshake ends with
TokenBundles == {[k \in {"token"} |-> "t"]}
\* the schemes the client's description declares
DeclaredSchemes == <<"oauth2", "basic">>

NoAuthCall == [method |-> NoMethod, options |-> EmptyMap, done |-> "none"]

Cancelled == Payload("Cancelled", Undefined, 0)
UnsupportedScheme == Payload("UnsupportedScheme", Undefined, 0)
Timeout == Payload("Timeout", Undefined, 0)
HandshakeError == Payload("handshake failed", Undefined, 0)

\* scheme.type of a declared scheme
SchemeType(method) ==
    CASE method = "basic" -> "Basic Authentication"
      [] method = "oauth2" -> "OAuth 2.0"

\* the scheme the authenticator negotiates: the one asked for, the first
\* declared one when none is asked for; NoMethod when it is not declared
Negotiated(declared, method) ==
    IF method = NoMethod THEN declared[1]
    ELSE IF \E i \in 1..Len(declared) : declared[i] = method THEN method
    ELSE NoMethod

\* one invocation of authenticate's completion handle: argc arguments
AuthDoneWith(err, argc, tokens) == [err |-> err, argc |-> argc, tokens |-> tokens]

\* clientOption.authentication[type] = bundle
Store(auth, type, bundle) ==
    [k \in DOMAIN auth \cup {type} |-> IF k = type THEN bundle ELSE auth[k]]

\* Cb taking the success path after it has reported the error (no return)
Cb_NoReturn(auth, err, type, options, tokens) ==
    [authentication |-> Store(auth, type, Extend(options, tokens)),
     done |-> IF err # Nothing
                THEN <<AuthDoneWith(err, 1, EmptyMap), AuthDoneWith(Nothing, 2, tokens)>>
                ELSE <<AuthDoneWith(Nothing, 2, tokens)>>,
     seen |-> IF err # Nothing THEN auth ELSE Store(auth, type, Extend(options, tokens))]

\* Cb calling done before it stores the bundle
Cb_DoneFirst(auth, err, type, options, tokens) ==
    IF err # Nothing
      THEN [authentication |-> auth, done |-> <<AuthDoneWith(err, 1, EmptyMap)>>,
            seen |-> auth]
      ELSE [authentication |-> Store(auth, type, Extend(options, tokens)),
            done |-> <<AuthDoneWith(Nothing, 2, tokens)>>,
            seen |-> auth]

\* Cb handing a Cancelled error to done, whatever the error was
Cb_AlwaysCancelled(auth, err, type, options, tokens) ==
    IF err # Nothing
      THEN [authentication |-> auth, done |-> <<AuthDoneWith(Cancelled, 1, EmptyMap)>>,
            seen |-> auth]
      ELSE [authentication |-> Store(auth, type, Extend(options, tokens)),
            done |-> <<AuthDoneWith(Nothing, 2, tokens)>>,
            seen |-> Store(auth, type, Extend(options, tokens))]

\* Cb dropping what the client has stored when the call fails
Cb_ClearsOnError(auth, err, type, options, tokens) ==
    IF err # Nothing
      THEN [authentication |-> EmptyMap, done |-> <<AuthDoneWith(err, 1, EmptyMap)>>,
            seen |-> EmptyMap]
      ELSE [authentication |-> Store(auth, type, Extend(options, tokens)),
            done |-> <<AuthDoneWith(Nothing, 2, tokens)>>,
            seen |-> Store(auth, type, Extend(options, tokens))]

\* cb(err, scheme, options, tokens): the authentication map afterwards, the
\* invocations of done, and the authentication map as done sees it
Cb(auth, err, type, options, tokens) ==
    IF err # Nothing
      THEN [authentication |-> auth, done |-> <<AuthDoneWith(err, 1, EmptyMap)>>,
            seen |-> auth]
      ELSE [authentication |-> Store(auth, type, Extend(options, tokens)),
            done |-> <<AuthDoneWith(Nothing, 2, tokens)>>,
            seen |-> Store(auth, type, Extend(options, tokens))]

NextAuthCall(a) == authPc[a] = "idle" /\ \A b \in AuthCalls : b < a => authPc[b] # "idle"

\* API.authenticate(client, method, options, done)
Authenticate(a, method, options, doneArg) ==
    /\ NextAuthCall(a)
    /\ timeout' = "10min"
    /\ asyncHandles' = IF doneArg = "function" THEN asyncHandles ELSE asyncHandles + 1
    /\ authArgs' = [authArgs EXCEPT ![a] = [method |-> method, options |-> options,
                                             done |-> doneArg]]
    /\ authPc' = [authPc EXCEPT ![a] = "pending"]
    /\ UNCHANGED <<securedBy, authentication, authOutcome, authDone, authSeen>>
    /\ UNCHANGED <<createVars, configVars>>

\* the authenticator ends call a and calls cb
CallCb(a, outcome, err, options, tokens) ==
    LET scheme == Negotiated(securedBy, authArgs[a].method)
        type == IF err = Nothing THEN SchemeType(scheme) ELSE ""
        r == Cb(authentication, err, type, options, tokens)
    IN /\ authentication' = r.authentication
       /\ authDone' = [authDone EXCEPT ![a] = @ \o r.done]
       /\ authSeen' = [authSeen EXCEPT ![a] = r.seen]
       /\ authOutcome' = [authOutcome EXCEPT ![a] = outcome]
       /\ authPc' = [authPc EXCEPT ![a] = "done"]
       /\ UNCHANGED <<securedBy, authArgs>>
       /\ UNCHANGED <<createVars, sandboxVars, configVars>>

\* a scheme the description does not declare: no handshake is attempted
AuthUnsupported(a) ==
    /\ authPc[a] = "pending"
    /\ Negotiated(securedBy, authArgs[a].method) = NoMethod
    /\ CallCb(a, "unsupported", UnsupportedScheme, EmptyMap, EmptyMap)

AuthMove(a, from, to) ==
    /\ authPc[a] = from
    /\ authPc' = [authPc EXCEPT ![a] = to]
    /\ UNCHANGED <<securedBy, authentication, authArgs, authOutcome, authDone, authSeen>>
    /\ UNCHANGED <<createVars, sandboxVars, configVars>>

\* the scheme needs secrets of the user: the authenticator prompts and waits
AuthPrompt(a) ==
    /\ Negotiated(securedBy, authArgs[a].method) # NoMethod
    /\ AuthMove(a, "pending", "prompt")

\* the options carry what the handshake needs
AuthNoPrompt(a) ==
    /\ Negotiated(securedBy, authArgs[a].method) # NoMethod
    /\ AuthMove(a, "pending", "handshake")

\* the user answers the prompt
AuthAnswer(a) ==
    /\ authPc[a] = "prompt"
    /\ AuthMove(a, "prompt", "handshake")

\* the user cancels the prompt
AuthCancel(a) ==
    /\ authPc[a] = "prompt"
    /\ CallCb(a, "cancelled", Cancelled, EmptyMap, EmptyMap)

\* the allowance of the flow runs out
AuthTimeout(a) ==
    /\ authPc[a] \in {"prompt", "handshake"}
    /\ CallCb(a, "timeout", Timeout, EmptyMap, EmptyMap)

AuthFail(a) ==
    /\ authPc[a] = "handshake"
    /\ CallCb(a, "failed", HandshakeError, EmptyMap, EmptyMap)

AuthSucceed(a, tokens) ==
    /\ authPc[a] = "handshake"
    /\ CallCb(a, "ok", Nothing, authArgs[a].options, tokens)

(***************************************************************************)
(* Specifications.                                                         *)
(***************************************************************************)
Init ==
    /\ args = [c \in Calls |-> NoCall]
    /\ pc = [c \in Calls |-> "idle"]
    /\ thrown = [c \in Calls |-> Nothing]
    /\ fetch = [c \in Calls |-> <<>>]
    /\ load = [c \in Calls |-> Nothing]
    /\ jobs = <<>>
    /\ loadOrder = <<>>
    /\ done = [c \in Calls |-> <<>>]
    /\ trace = [c \in Calls |-> <<>>]
    /\ window = <<>>
    /\ timeout = "default"
    /\ asyncHandles = 0
    /\ clientConfig = EmptyMap
    /\ lastOp = NoOp
    /\ heap = [o \in Objects |-> EmptyMap]
    /\ configOf = [c \in Calls |-> Undefined]
    /\ lastClient = 0
    /\ securedBy = DeclaredSchemes
    /\ authentication = EmptyMap
    /\ authArgs = [a \in AuthCalls |-> NoAuthCall]
    /\ authPc = [a \in AuthCalls |-> "idle"]
    /\ authOutcome = [a \in AuthCalls |-> "none"]
    /\ authDone = [a \in AuthCalls |-> <<>>]
    /\ authSeen = [a \in AuthCalls |-> EmptyMap]

\* one createClient call, with every input
Next ==
    \/ \E name \in NameArgs, url \in UrlArgs, config \in ConfigArgs, doneArg \in DoneArgs :
         CreateClient(1, name, url, config, doneArg)
    \/ \E url \in UrlArgs \cup {IncludeUrl} : ReadFile(1, url)
    \/ \E i \in 1..(MaxIncludes + 1), status \in Statuses : AjaxCallback(1, i, Nothing, status)
    \/ \E i \in 1..(MaxIncludes + 1) : AjaxCallback(1, i, TransportError, 0)
    \/ LoadFails(1)
    \/ \E wellFormed \in BOOLEAN : LoadParses(1, wellFormed)
    \/ \E generated \in BOOLEAN : RunFulfilled(1, generated)
    \/ RunRejected(1)

Spec == Init /\ [][Next]_vars

\* what the call that Next makes still has to do
Progress ==
    \/ \E url \in UrlArgs \cup {IncludeUrl} : ReadFile(1, url)
    \/ \E i \in 1..(MaxIncludes + 1), status \in Statuses : AjaxCallback(1, i, Nothing, status)
    \/ LoadFails(1)
    \/ \E wellFormed \in BOOLEAN : LoadParses(1, wellFormed)
    \/ \E generated \in BOOLEAN : RunFulfilled(1, generated)
    \/ RunRejected(1)

\* Spec with its scheduling: the loader asks for the files it wants, the
\* middleware answers every 'ajax' request, a queued reaction gets run
FairSpec == Spec /\ WF_vars(Progress)

\* up to MaxCalls createClient calls with their loads in flight together
NextConcurrent ==
    \E c \in Calls :
      \/ \E name \in RaceNameArgs, url \in RaceUrlArgs :
           CreateClient(c, name, url, "function", "undefined")
      \/ \E url \in RaceUrlArgs : ReadFile(c, url)
      \/ \E status \in RaceStatuses : AjaxCallback(c, 1, Nothing, status)
      \/ LoadFails(c)
      \/ \E wellFormed \in BOOLEAN : LoadParses(c, wellFormed)
      \/ \E generated \in BOOLEAN : RunFulfilled(c, generated)
      \/ RunRejected(c)

SpecConcurrent == Init /\ [][NextConcurrent]_vars

\* the set / get / unset calls on one client, whose config starts empty
NextConfig ==
    \/ \E key \in ConfigKeys, value \in ConfigValues : Set(key, value)
    \/ \E map \in ConfigMaps : SetAll(map)
    \/ \E key \in ConfigKeys : Get(key)
    \/ GetAll
    \/ \E key \in ConfigKeys : Unset(key)
    \/ UnsetAll

SpecConfig == Init /\ [][NextConfig]_vars

\* a createClient call up to the start of its load and an authenticate
\* call up to the start of its handshake, in one sandbox
NextSandbox ==
    \/ \E name \in NameArgs, url \in UrlArgs, config \in ConfigArgs, doneArg \in DoneArgs :
         CreateClient(1, name, url, config, doneArg)
    \/ \E url \in UrlArgs : ReadFile(1, url)
    \/ \E method \in MethodArgs, options \in OptionsArgs, doneArg \in DoneArgs :
         Authenticate(1, method, options, doneArg)
    \/ AuthUnsupported(1)
    \/ AuthPrompt(1)
    \/ AuthNoPrompt(1)
    \/ AuthAnswer(1)

SpecSandbox == Init /\ [][NextSandbox]_vars

\* the clients of up to MaxCalls createClient calls and the set / get /
\* unset calls on them
NextClients ==
    \E c \in Calls :
      \/ \E config \in ConfigRefArgs : Generate(c, config)
      \/ \E key \in SharedKeys, value \in SharedValues : SetOn(c, key, value)
      \/ \E map \in SharedMaps : SetAllOn(c, map)
      \/ \E key \in SharedKeys : GetOn(c, key)
      \/ GetAllOn(c)
      \/ \E key \in SharedKeys : UnsetOn(c, key)
      \/ UnsetAllOn(c)

SpecClients == Init /\ [][NextClients]_vars

\* what the authenticator still has to do
AuthProgress ==
    \E a \in AuthCalls :
      \/ AuthUnsupported(a)
      \/ AuthPrompt(a)
      \/ AuthNoPrompt(a)
      \/ AuthAnswer(a)
      \/ AuthCancel(a)
      \/ AuthTimeout(a)
      \/ AuthFail(a)
      \/ \E tokens \in TokenBundles : AuthSucceed(a, tokens)

\* the authenticate calls on one client
NextAuth ==
    \/ \E a \in AuthCalls, method \in MethodArgs, options \in OptionsArgs, doneArg \in DoneArgs :
         Authenticate(a, method, options, doneArg)
    \/ AuthProgress

SpecAuth == Init /\ [][NextAuth]_vars

\* SpecAuth with its scheduling: a prompt is answered or cancelled, a
\* handshake ends, or the allowance of the flow runs out
FairSpecAuth == SpecAuth /\ WF_vars(AuthProgress)

(***************************************************************************)
(* Notions the properties are stated with.                                 *)
(***************************************************************************)
Started(c) == args[c] # NoCall
Has(seq, e) == \E i \in 1..Len(seq) : seq[i] = e
Count(seq, e) == Cardinality({i \in 1..Len(seq) : seq[i] = e})
\* the first place of e in seq, 0 when it has none
Pos(seq, e) == IF Has(seq, e) THEN CHOOSE i \in 1..Len(seq) :
                                     seq[i] = e /\ \A j \in 1..(i - 1) : seq[j] # e
               ELSE 0
Before(seq, e1, e2) == Has(seq, e1) /\ Has(seq, e2) /\ Pos(seq, e1) < Pos(seq, e2)
Holds(w, c) == {q \in DOMAIN w : w[q] = c}
Succeeded(c) == pc[c] = "done" /\ done[c] = <<DoneWith(Nothing, SuccessMessage(args[c].name))>>
\* the path of an alias, written out
AliasPath(name) ==
    CASE name = Str(<<"a">>) -> << <<"a">> >>
      [] name = Str(<<"a", ".", "b">>) -> << <<"a">>, <<"b">> >>
      [] name = Str(<<>>) -> << <<>> >>

(***************************************************************************)
(* createClient: the completion handle.                                    *)
(***************************************************************************)
\* C1: a createClient call whose name and url are strings ends up calling
\* its completion handle exactly once, with an error or with the success
\* message and never with both, whatever the load and the generation do
C1_HandleCalledExactlyOnce ==
    /\ [](\A c \in Calls :
            /\ Len(done[c]) <= 1
            /\ \A i \in 1..Len(done[c]) :
                 (done[c][i].err = Nothing) # (done[c][i].result = Nothing))
    /\ \A c \in Calls :
         (Started(c) /\ IsString(args[c].name) /\ IsString(args[c].url))
            ~> (Len(done[c]) = 1)

\* a call without a done argument whose generation threw has called the
\* handle async() gave it, with the error
C1_Witness ==
    \E c \in Calls :
      /\ pc[c] = "done" /\ HandleOf(c) = "async"
      /\ done[c] = <<DoneWith(GenerationError, Nothing)>>

(***************************************************************************)
(* createClient: argument validation.                                      *)
(***************************************************************************)
\* C5 as stated: createClient(name, url, done) with a url that is not a
\* string invokes done with an error and triggers no 'ajax' request
C5_Original ==
    \A c \in Calls :
      (Started(c) /\ IsString(args[c].name) /\ ~IsString(args[c].url)
         /\ args[c].config = "function")
        => /\ Len(done[c]) = 1 /\ done[c][1].err # Nothing
           /\ fetch[c] = <<>>

\* C5: createClient with a string name and a url that is not a string
\* throws 'Provide a URL for the <name> RAML document' out of the call; it
\* never invokes the completion handle and triggers no 'ajax' request
C5_NonStringUrlThrows ==
    \A c \in Calls :
      (Started(c) /\ IsString(args[c].name) /\ ~IsString(args[c].url))
        => /\ pc[c] = "threw"
           /\ thrown[c].kind = "Provide a URL for the <name> RAML document"
           /\ thrown[c].about = args[c].name
           /\ done[c] = <<>>
           /\ fetch[c] = <<>>

C5_Witness ==
    \E c \in Calls :
      /\ args[c].name = Str(<<"a">>) /\ args[c].url = ANumber
      /\ args[c].config = "function"
      /\ pc[c] = "threw"

\* C6 as stated: an empty-string name or url makes createClient fail
\* synchronously, before any load and any 'ajax' request
C6_Original ==
    \A c \in Calls :
      (Started(c) /\ (args[c].name = Str(<<>>) \/ args[c].url = Str(<<>>)))
        => pc[c] = "threw" /\ thrown[c] # Nothing /\ fetch[c] = <<>>

\* C6: createClient fails synchronously, before any load and any 'ajax'
\* request, exactly when its name or its url is not a string; an empty
\* string is a string and passes
C6_NonStringsThrow ==
    \A c \in Calls :
      Started(c) =>
        /\ (pc[c] = "threw") <=> (args[c].name.t # "string" \/ args[c].url.t # "string")
        /\ pc[c] = "threw" =>
             /\ thrown[c] # Nothing
             /\ fetch[c] = <<>> /\ load[c] = Nothing /\ done[c] = <<>>
             /\ trace[c] = <<>>
        /\ pc[c] # "threw" => thrown[c] = Nothing

C6_Witness ==
    \E c \in Calls :
      /\ args[c].name = Undefined /\ args[c].url = Str(<<"u">>)
      /\ pc[c] = "threw" /\ thrown[c] = NameError

(***************************************************************************)
(* The reader and a failed load.                                           *)
(***************************************************************************)
\* C7: a fetch resolves, with the response body, if and only if the
\* transport gave no error and the status is in 200..299; for another
\* status it is rejected with an error naming the url and the status, the
\* completion handle gets that error and no client is installed
C7_FetchResolvesOn2xxOnly ==
    \A c \in Calls : \A i \in 1..Len(fetch[c]) :
      LET f == fetch[c][i] IN
        /\ f.st # "pending" =>
             ((f.st = "resolved") <=> (f.cbErr = Nothing /\ f.status \in 200..299))
        /\ f.st = "resolved" =>
             f.value.kind = "responseText" /\ f.value.about = f.url
        /\ (f.st = "rejected" /\ f.cbErr = Nothing) =>
             /\ f.value.kind = "Received status code <status> loading <url>"
             /\ f.value.about = f.url /\ f.value.status = f.status
        /\ (f.st = "rejected" /\ pc[c] \in {"rejected", "done"}) => load[c] = f.value
        /\ (f.st = "rejected" /\ pc[c] = "done") =>
             /\ done[c] = <<DoneWith(f.value, Nothing)>>
             /\ ~Has(trace[c], "install")
             /\ Holds(window, c) = {}

C7_Witness ==
    \E c \in Calls :
      /\ pc[c] = "done" /\ Len(fetch[c]) = 1
      /\ fetch[c][1].status = 404
      /\ done[c] = <<DoneWith(StatusError(404, args[c].url), Nothing)>>

(***************************************************************************)
(* The reaction to a loaded description.                                   *)
(***************************************************************************)
\* C8: when the generation throws after a successful load, the completion
\* handle gets that error and no success, and the global namespace is left
\* as it was: nothing is installed under the alias
C8_GenerationErrorInstallsNothing ==
    /\ [](\A c \in Calls :
            Has(trace[c], "threw") =>
              /\ done[c] = <<DoneWith(GenerationError, Nothing)>>
              /\ ~Has(trace[c], "install")
              /\ Holds(window, c) = {})
    /\ [][\A c \in Calls :
            (~Has(trace[c], "threw") /\ Has(trace'[c], "threw")) => window' = window]_vars

\* a generation threw while another call's client was installed
C8_Witness ==
    \E c \in Calls :
      /\ Has(trace[c], "threw") /\ pc[c] = "done"
      /\ window # <<>>

\* C9: within a call the load completes before the generation starts, the
\* generation completes before the installation, the installation before
\* the completion handle gets the success message; a successful call
\* installs once, under the path of its alias
C9_LoadGenerateInstallDone ==
    /\ [](\A c \in Calls :
            /\ Has(trace[c], "generate") => Before(trace[c], "loaded", "generate")
            /\ Has(trace[c], "install") => Before(trace[c], "generated", "install")
            /\ Count(trace[c], "install") <= 1
            /\ Succeeded(c) =>
                 /\ Before(trace[c], "installed", "done")
                 /\ Count(trace[c], "install") = 1
                 /\ Count(trace[c], "done") = 1)
    /\ [][\A c \in Calls :
            (~Succeeded(c) /\ Succeeded(c)') =>
              LET p == AliasPath(args[c].name) IN
                /\ p \in DOMAIN window' /\ window'[p] = c
                /\ Holds(window', c) = {p}
                /\ \A q \in DOMAIN window :
                     (~IsPrefix(p, q)) => (q \in DOMAIN window' /\ window'[q] = window[q])]_vars

C9_Witness ==
    \E c \in Calls :
      /\ Succeeded(c) /\ args[c].name = Str(<<"a", ".", "b">>)
      /\ Holds(window, c) = {<< <<"a">>, <<"b">> >>}

(***************************************************************************)
(* Concurrent createClient calls.                                          *)
(***************************************************************************)
LoadedBefore(c, d) == Before(loadOrder, c, d)

\* C10 as stated: of two calls that both succeeded, with different aliases
\* both clients are installed, each under its alias; with equal aliases the
\* alias holds the client of the call whose load completed last
C10_Original ==
    \A c, d \in Calls :
      (c # d /\ Succeeded(c) /\ Succeeded(d) /\ LoadedBefore(c, d)) =>
        LET pcall == AliasPath(args[c].name)
            pd == AliasPath(args[d].name)
        IN IF args[c].name = args[d].name
             THEN Holds(window, d) = {pd} /\ Holds(window, c) = {}
             ELSE Holds(window, c) = {pcall} /\ Holds(window, d) = {pd}

\* C10: each completion handle is called once and none gets an error for
\* being overwritten; a client stays installed under its alias unless a
\* call whose load completed later installed at the same path or at a
\* leading part of it ('a' after 'a.b'); so different aliases of which
\* neither path leads the other both end up installed, and of equal
\* aliases the one whose load completed last
C10_LastInstallWins ==
    /\ \A c \in Calls : pc[c] = "done" => Len(done[c]) = 1
    /\ \A c \in Calls :
         Has(trace[c], "installed") =>
           /\ Succeeded(c)
           /\ LET p == AliasPath(args[c].name)
                  over == {d \in Calls : /\ Has(trace[d], "installed")
                                         /\ LoadedBefore(c, d)
                                         /\ IsPrefix(AliasPath(args[d].name), p)}
              IN Holds(window, c) = IF over = {} THEN {p} ELSE {}

\* two calls for one alias; the call made first loaded last, and holds it
C10_Witness ==
    /\ args[1].name = args[2].name
    /\ Succeeded(1) /\ Succeeded(2)
    /\ loadOrder = <<2, 1>>
    /\ Holds(window, 1) = {AliasPath(args[1].name)}

(***************************************************************************)
(* set / get / unset.                                                      *)
(***************************************************************************)
\* C3: get(c, k) right after set(c, k, v) returns v, and get(c, k) right
\* after unset(c, k) returns undefined, for every key and value and from
\* every config that set and unset calls lead to
C3_RoundTrip ==
    [][/\ (lastOp.op = "set" /\ lastOp'.op = "get" /\ lastOp'.key = lastOp.key)
            => lastOp'.ret = lastOp.value
       /\ (lastOp.op = "unset" /\ lastOp'.op = "get" /\ lastOp'.key = lastOp.key)
            => lastOp'.ret = Undefined]_vars

\* C4: set(c, m) merges every key of m and keeps the keys m does not
\* mention; unset(c) removes every key; get(c) returns the config map,
\* which is empty right after unset(c)
C4_BulkForms ==
    [][/\ lastOp'.op = "setAll" =>
            /\ \A k \in DOMAIN lastOp'.map :
                 k \in DOMAIN clientConfig' /\ clientConfig'[k] = lastOp'.map[k]
            /\ \A k \in DOMAIN clientConfig \ DOMAIN lastOp'.map :
                 k \in DOMAIN clientConfig' /\ clientConfig'[k] = clientConfig[k]
            /\ DOMAIN clientConfig' = DOMAIN clientConfig \cup DOMAIN lastOp'.map
       /\ lastOp'.op = "unsetAll" => DOMAIN clientConfig' = {}
       /\ lastOp'.op = "getAll" => (lastOp'.ret = ConfigObject /\ clientConfig' = clientConfig)
       /\ (lastOp.op = "unsetAll" /\ lastOp'.op = "getAll") => DOMAIN clientConfig' = {}]_vars

(***************************************************************************)
(* authenticate: the completion handle.                                    *)
(***************************************************************************)
\* C2: an authenticate call ends up calling its completion handle exactly
\* once: with the error alone when the authenticator reports a failure (a
\* cancelled prompt is reported as a Cancelled error), with no error and
\* the token bundle on success
C2_AuthHandleCalledExactlyOnce ==
    /\ [](\A a \in AuthCalls :
            /\ Len(authDone[a]) <= 1
            /\ authPc[a] = "done" =>
                 /\ Len(authDone[a]) = 1
                 /\ authOutcome[a] = "cancelled" =>
                      authDone[a][1] = [err |-> Cancelled, argc |-> 1, tokens |-> EmptyMap]
                 /\ authOutcome[a] # "ok" =>
                      /\ authDone[a][1].err # Nothing
                      /\ authDone[a][1].argc = 1
                 /\ authOutcome[a] = "ok" =>
                      /\ authDone[a][1].err = Nothing
                      /\ authDone[a][1].argc = 2
                      /\ authDone[a][1].tokens \in TokenBundles)
    /\ \A a \in AuthCalls : (authPc[a] # "idle") ~> (Len(authDone[a]) = 1)

\* a call without a done argument whose prompt was cancelled
C2_Witness ==
    \E a \in AuthCalls :
      /\ authArgs[a].done = "undefined"
      /\ authOutcome[a] = "cancelled"
      /\ authDone[a] = <<AuthDoneWith(Cancelled, 1, EmptyMap)>>

(***************************************************************************)
(* authenticate: the authentication map.                                   *)
(***************************************************************************)
\* the authenticate call that ends in this step with a success
SucceedsNow(a) == authOutcome[a] = "none" /\ authOutcome'[a] = "ok"
\* the authenticate call that ends in this step with an error
FailsNow(a) == authOutcome[a] = "none" /\ authOutcome'[a] \notin {"none", "ok"}
\* the scheme type an authenticate call negotiates
TypeOf(a) == SchemeType(Negotiated(securedBy, authArgs[a].method))

\* C11: a successful authenticate for a scheme of type t leaves the entry
\* of every other scheme type as it was, makes the entry under t the
\* options overridden by the tokens (every key of the tokens carries the
\* token's value, every other key of the options the option's value), and
\* its completion handle gets the tokens when the map is already updated
C11_SuccessStoresUnderType ==
    [][\A a \in AuthCalls : SucceedsNow(a) =>
         LET t == TypeOf(a)
             tokens == authDone'[a][1].tokens
             options == authArgs[a].options
         IN /\ DOMAIN authentication' = DOMAIN authentication \cup {t}
            /\ \A u \in DOMAIN authentication \ {t} : authentication'[u] = authentication[u]
            /\ DOMAIN authentication'[t] = DOMAIN options \cup DOMAIN tokens
            /\ \A k \in DOMAIN tokens : authentication'[t][k] = tokens[k]
            /\ \A k \in DOMAIN options \ DOMAIN tokens : authentication'[t][k] = options[k]
            /\ authDone'[a] = <<AuthDoneWith(Nothing, 2, tokens)>>
            /\ tokens \in TokenBundles
            /\ authSeen'[a] = authentication']_vars

\* two successful calls for different scheme types, the second with
\* options that carry a key of the tokens: both entries are stored, the
\* second with the token's value under that key
C11_Witness ==
    /\ authOutcome[1] = "ok" /\ authOutcome[2] = "ok"
    /\ TypeOf(1) # TypeOf(2)
    /\ \E k \in DOMAIN authArgs[2].options :
         /\ k \in DOMAIN authDone[2][1].tokens
         /\ authArgs[2].options[k] # authDone[2][1].tokens[k]
         /\ authentication[TypeOf(2)][k] = authDone[2][1].tokens[k]
    /\ authentication[TypeOf(1)] = Extend(authArgs[1].options, authDone[1][1].tokens)
    /\ authSeen[2] = authentication

\* C12: a successful authenticate for a scheme type that already has a
\* bundle stored merges into that bundle: every key of the bundle stored
\* before is still present under the type afterwards
C12_SecondMergesIntoStored ==
    [][\A a \in AuthCalls :
         (SucceedsNow(a) /\ TypeOf(a) \in DOMAIN authentication) =>
           \A k \in DOMAIN authentication[TypeOf(a)] :
             k \in DOMAIN authentication'[TypeOf(a)]]_vars

\* C13: when the authenticator reports an error, the completion handle is
\* called with that error alone (one argument, no tokens), and the
\* authentication map stays as it was
C13_ErrorPassedUnchanged ==
    [][\A a \in AuthCalls : FailsNow(a) =>
         LET err == CASE authOutcome'[a] = "unsupported" -> UnsupportedScheme
                      [] authOutcome'[a] = "cancelled" -> Cancelled
                      [] authOutcome'[a] = "timeout" -> Timeout
                      [] authOutcome'[a] = "failed" -> HandshakeError
         IN /\ authDone'[a] = <<AuthDoneWith(err, 1, EmptyMap)>>
            /\ authentication' = authentication
            /\ authSeen'[a] = authentication]_vars

\* a handshake that failed after an earlier call had stored a bundle: the
\* bundle is still there and the handle got the handshake's error
C13_Witness ==
    /\ authOutcome[1] = "ok"
    /\ authOutcome[2] = "failed"
    /\ authDone[2] = <<AuthDoneWith(HandshakeError, 1, EmptyMap)>>
    /\ authentication = authSeen[1]
    /\ authentication # EmptyMap

\* C14: an authenticate call naming a scheme the description does not
\* declare never gets to a prompt or a handshake and triggers no request;
\* it ends with UnsupportedScheme handed to the completion handle and the
\* authentication map as it was
C14_UndeclaredSchemeFails ==
    [][\A a \in AuthCalls :
         (authPc[a] # "idle" /\ Negotiated(securedBy, authArgs[a].method) = NoMethod) =>
           /\ authPc'[a] \in {"pending", "done"}
           /\ trace' = trace
           /\ authPc'[a] # authPc[a] =>
                /\ authOutcome'[a] = "unsupported"
                /\ authDone'[a] = <<AuthDoneWith(UnsupportedScheme, 1, EmptyMap)>>
                /\ authentication' = authentication]_vars

\* a call naming the undeclared 'oauth1' that has ended
C14_Witness ==
    \E a \in AuthCalls :
      /\ authArgs[a].method = "oauth1"
      /\ authArgs[a].method \notin {securedBy[i] : i \in 1..Len(securedBy)}
      /\ authPc[a] = "done"
      /\ authDone[a] = <<AuthDoneWith(UnsupportedScheme, 1, EmptyMap)>>

(***************************************************************************)
(* The config object of a client, and of two clients.                      *)
(***************************************************************************)
\* C15: the '!config' of a client is one object for the client's life: no
\* set, get or unset call makes another object the client's config, get(c)
\* and set(c, m) return that very object, and unset(c) leaves that object
\* without any key
C15_OneObjectForLife ==
    [][\A c \in Calls : HasClient(c) =>
         /\ configOf'[c] = configOf[c]
         /\ (lastClient' = c /\ lastOp'.op \in {"getAll", "setAll"}) =>
              lastOp'.ret = configOf[c]
         /\ (lastClient' = c /\ lastOp'.op = "unsetAll") =>
              DOMAIN heap'[configOf[c]] = {}]_vars

\* C16: no set or unset call on the client of one createClient call changes
\* the config of the client of another call
C16_NoSharedConfig ==
    [][\A a, b \in Calls :
         (a # b /\ HasClient(a) /\ HasClient(b) /\ lastClient' = a) =>
           heap'[configOf[b]] = heap[configOf[b]]]_vars

(***************************************************************************)
(* Missing keys, and the frame of the keyed operations.                    *)
(***************************************************************************)
\* C17: for a key that is not in the client's config, get(c, k) returns
\* undefined and unset(c, k) returns false, and neither changes the config
C17_MissingKeys ==
    [][/\ (lastOp'.op = "get" /\ lastOp'.key \notin DOMAIN clientConfig) =>
            (lastOp'.ret = Undefined /\ clientConfig' = clientConfig)
       /\ (lastOp'.op = "unset" /\ lastOp'.key \notin DOMAIN clientConfig) =>
            (lastOp'.ret = Bool(FALSE) /\ clientConfig' = clientConfig)]_vars

(***************************************************************************)
(* No retries.                                                             *)
(***************************************************************************)
\* a fetch of call c has failed, or its load has been rejected
LoadFailed(c) ==
    \/ \E i \in 1..Len(fetch[c]) : fetch[c][i].st = "rejected"
    \/ pc[c] = "rejected"
    \/ pc[c] = "done" /\ load[c].kind # "document"

\* C18: every file the loader asks the reader for triggers exactly one
\* 'ajax' request; a fetch settles once and for all; once a fetch has
\* failed or the load is rejected no further request is triggered; and the
\* failure is the first and only thing the completion handle is called with
C18_NothingRetried ==
    [][\A c \in Calls :
         /\ Count(trace'[c], "ajax") = Len(fetch'[c])
         /\ \A i \in 1..Len(fetch[c]) :
              /\ i <= Len(fetch'[c])
              /\ fetch'[c][i].url = fetch[c][i].url
              /\ fetch[c][i].st # "pending" => fetch'[c][i] = fetch[c][i]
         /\ LoadFailed(c) =>
              /\ Len(fetch'[c]) = Len(fetch[c])
              /\ Count(trace'[c], "ajax") = Count(trace[c], "ajax")
              /\ LoadFailed(c)'
         /\ Len(done'[c]) <= 1
         /\ (LoadFailed(c)' /\ pc'[c] = "done") =>
              /\ done'[c] = <<DoneWith(load'[c], Nothing)>>
              /\ load'[c] # Nothing
              /\ \A i \in 1..Len(fetch'[c]) :
                   fetch'[c][i].st = "rejected" => load'[c] = fetch'[c][i].value]_vars

\* the fetch of an included file failed after the main document was
\* fetched: two requests in all, and the handle got the fetch's error
C18_Witness ==
    /\ pc[1] = "done"
    /\ Len(fetch[1]) = 2
    /\ fetch[1][1].st = "resolved"
    /\ fetch[1][2].st = "rejected"
    /\ Count(trace[1], "ajax") = 2
    /\ done[1] = <<DoneWith(fetch[1][2].value, Nothing)>>

(***************************************************************************)
(* The timeout of the sandbox.                                             *)
(***************************************************************************)
\* C19: a createClient call whose arguments pass the validation sets the
\* timeout to Infinity (and takes an async handle when it was given no
\* completion handle) with no file asked for yet; one whose arguments fail
\* the validation leaves the timeout and the async handles alone; an
\* authenticate call sets the timeout to 10 minutes with the flow not yet at
\* a prompt or a handshake; so a load or a handshake never starts under the
\* default timeout
C19_TimeoutDiscipline ==
    [][/\ \A c \in Calls : (args[c] = NoCall /\ args'[c] # NoCall) =>
            IF Validate(args'[c].name, args'[c].url) = Nothing
              THEN /\ timeout' = "Infinity"
                   /\ asyncHandles' = asyncHandles +
                        (IF Handle(args'[c].config, args'[c].done) = "async" THEN 1 ELSE 0)
                   /\ pc'[c] = "loading" /\ fetch'[c] = <<>>
              ELSE /\ timeout' = timeout
                   /\ asyncHandles' = asyncHandles
                   /\ pc'[c] = "threw" /\ thrown'[c] = Validate(args'[c].name, args'[c].url)
       /\ \A a \in AuthCalls : (authPc[a] = "idle" /\ authPc'[a] # "idle") =>
            /\ timeout' = "10min"
            /\ authPc'[a] = "pending"
       /\ \A c \in Calls : Len(fetch'[c]) > Len(fetch[c]) => timeout # "default"
       /\ \A a \in AuthCalls :
            (authPc[a] = "pending" /\ authPc'[a] \in {"prompt", "handshake"}) =>
              timeout # "default"]_vars

\* a createClient call without a completion handle has failed its
\* validation, and an authenticate call with one is at its handshake: the
\* timeout is the 10 minutes of authenticate and no async handle was taken
C19_Witness ==
    /\ pc[1] = "threw" /\ thrown[1] # Nothing
    /\ Handle(args[1].config, args[1].done) = "async"
    /\ authPc[1] = "handshake" /\ authArgs[1].done = "function"
    /\ timeout = "10min"
    /\ asyncHandles = 0

\* C20: set(c, k, v) changes the entry of k only, unset(c, k) removes the
\* entry of k only, get(c, k) and get(c) change nothing: every other key of
\* the config keeps its value
C20_KeyedFrame ==
    [][/\ lastOp'.op = "set" =>
            /\ DOMAIN clientConfig' = DOMAIN clientConfig \cup {lastOp'.key}
            /\ clientConfig'[lastOp'.key] = lastOp'.value
            /\ \A k \in DOMAIN clientConfig \ {lastOp'.key} : clientConfig'[k] = clientConfig[k]
       /\ lastOp'.op = "unset" =>
            /\ DOMAIN clientConfig' = DOMAIN clientConfig \ {lastOp'.key}
            /\ \A k \in DOMAIN clientConfig' : clientConfig'[k] = clientConfig[k]
       /\ lastOp'.op \in {"get", "getAll"} => clientConfig' = clientConfig]_vars

\* an unset of one key of a config that has another key, which stays
C20_Witness ==
    /\ lastOp.op = "unset"
    /\ lastOp.key = "k"
    /\ "k" \notin DOMAIN clientConfig
    /\ "length" \in DOMAIN clientConfig /\ clientConfig["length"] = Num(1)
    /\ "toString" \in DOMAIN clientConfig

====
